---------------------------- MODULE Spec2Model ----------------------------
(***************************************************************************)
(* ACORN-128 (magical/go-acorn): the register transition engine            *)
(* (acorn.go), the sequencing protocol init / process / crypt / pad /      *)
(* finalize (acorn.go) and the AEAD composition NewAEAD / Seal / Open      *)
(* (aead.go).                                                              *)
(*                                                                         *)
(* Encoding.  A Go unsigned integer (uint32, uint64) is the set of the     *)
(* positions of its 1 bits: 5 is {0, 2}.  XOR is symmetric difference, AND *)
(* is intersection, a shift moves every position and drops the ones that   *)
(* leave the word.  A byte slice is a sequence of numbers 0..255.          *)
(***************************************************************************)
EXTENDS Integers, Sequences, FiniteSets, TLC

\* ------------------------------------------------------------ machine words

Bits32 == 0..31
Bits64 == 0..63

(* Every operator builds its result with {e : i \in S}, which TLC evaluates *)
(* to an explicit set at once.                                              *)

\* x ^ y, x & y and unary ^x on uint32 operands
Xor(a, b) == {i : i \in (a \ b) \cup (b \ a)}
And(a, b) == {i : i \in a \cap b}
Not32(a) == {i : i \in Bits32 \ a}
\* x ^ y on uint64 operands
Xor64(a, b) == {i : i \in (a \ b) \cup (b \ a)}
\* x >> k on a uint64
Shr(a, k) == {i - k : i \in a \ (0..(k - 1))}
\* x << k on a uint64: bits shifted past bit 63 are lost
Shl64(a, k) == {i + k : i \in a \cap (0..(63 - k))}
\* the conversion uint32(x) of a uint64
U32(a) == {i : i \in a \cap Bits32}
\* x & 0xFF
\* a mask & 0xFF left out
NoMask(a) == {i : i \in a}

Lo8(a) == {i : i \in a \cap (0..7)}

\* const one = ^uint32(0)
one == Bits32
zero == {}

RECURSIVE Pow2(_)
Pow2(n) == IF n = 0 THEN 1 ELSE 2 * Pow2(n - 1)

\* a byte (0..255) widened to a word: uint32(x)
WordOfByte(x) == {i \in 0..7 : (x \div Pow2(i)) % 2 = 1}

RECURSIVE SumPow2(_)
SumPow2(a) ==
    IF a = {} THEN 0
    ELSE LET i == CHOOSE j \in a : TRUE IN Pow2(i) + SumPow2(a \ {i})

\* the conversion uint8(w) of a word
ByteOfWord(w) == SumPow2(Lo8(w))

\* --------------------------------------------------------------- acorn.go

\* a majority that leaves out its last term
majTwoTerms(x, y, z) == Xor(And(x, y), And(x, z))

maj(x, y, z) == Xor(Xor(And(x, y), And(x, z)), And(y, z))

ch(x, y, z) == Xor(And(x, y), And(Not32(x), z))

\* type state struct { s230, s193, s154, s107, s61, s0 uint64 }
ZeroState == [s230 |-> {}, s193 |-> {}, s154 |-> {}, s107 |-> {}, s61 |-> {}, s0 |-> {}]

\* update8 with the keystream reading s154 as it was before its feedback
update8EarlyTap(s, m, ca, cb) ==
    LET s244 == U32(Shr(s.s230, 14))
        s235 == U32(Shr(s.s230, 5))
        s196 == U32(Shr(s.s193, 3))
        s160 == U32(Shr(s.s154, 6))
        s111 == U32(Shr(s.s107, 4))
        s66  == U32(Shr(s.s61, 5))
        s23  == U32(Shr(s.s0, 23))
        s12  == U32(Shr(s.s0, 12))
        s0   == U32(s.s0)
        x289 == Lo8(Xor(s235, U32(s.s230)))
        s230 == Lo8(Xor(Xor(U32(s.s230), s196), U32(s.s193)))
        s193 == Lo8(Xor(Xor(U32(s.s193), s160), U32(s.s154)))
        s154 == Lo8(Xor(Xor(U32(s.s154), s111), U32(s.s107)))
        s107 == Lo8(Xor(Xor(U32(s.s107), s66), U32(s.s61)))
        s61  == Lo8(Xor(Xor(U32(s.s61), s23), s0))
        ks   == Lo8(Xor(Xor(Xor(s12, U32(s.s154)), maj(s235, s61, s193)), ch(s230, s111, s66)))
        f    == Lo8(Xor(Xor(Xor(Xor(s0, Not32(s107)), maj(s244, s23, s160)),
                            And(ca, s196)), And(cb, ks)))
        s293 == Lo8(Xor(f, m))
    IN  [s |-> [s230 |-> Xor64(Xor64(Shr(s.s230, 8), Shl64(x289, 289 - 230 - 8)),
                                 Shl64(s293, 293 - 230 - 8)),
                s193 |-> Xor64(Shr(s.s193, 8), Shl64(s230, 230 - 193 - 8)),
                s154 |-> Xor64(Shr(s.s154, 8), Shl64(s193, 193 - 154 - 8)),
                s107 |-> Xor64(Shr(s.s107, 8), Shl64(s154, 154 - 107 - 8)),
                s61  |-> Xor64(Shr(s.s61, 8), Shl64(s107, 107 - 61 - 8)),
                s0   |-> Xor64(Shr(s.s0, 8), Shl64(s61, 61 - 8))],
         ks |-> ks]

\* performs 8 stateupdates; returns the new state and the keystream byte
update8(s, m, ca, cb) ==
    LET s244 == U32(Shr(s.s230, 14))
        s235 == U32(Shr(s.s230, 5))
        s196 == U32(Shr(s.s193, 3))
        s160 == U32(Shr(s.s154, 6))
        s111 == U32(Shr(s.s107, 4))
        s66  == U32(Shr(s.s61, 5))
        s23  == U32(Shr(s.s0, 23))
        s12  == U32(Shr(s.s0, 12))
        s0   == U32(s.s0)
        x289 == Lo8(Xor(s235, U32(s.s230)))
        s230 == Lo8(Xor(Xor(U32(s.s230), s196), U32(s.s193)))
        s193 == Lo8(Xor(Xor(U32(s.s193), s160), U32(s.s154)))
        s154 == Lo8(Xor(Xor(U32(s.s154), s111), U32(s.s107)))
        s107 == Lo8(Xor(Xor(U32(s.s107), s66), U32(s.s61)))
        s61  == Lo8(Xor(Xor(U32(s.s61), s23), s0))
        ks   == Lo8(Xor(Xor(Xor(s12, s154), maj(s235, s61, s193)), ch(s230, s111, s66)))
        f    == Lo8(Xor(Xor(Xor(Xor(s0, Not32(s107)), maj(s244, s23, s160)),
                            And(ca, s196)), And(cb, ks)))
        s293 == Lo8(Xor(f, m))
    IN  [s |-> [s230 |-> Xor64(Xor64(Shr(s.s230, 8), Shl64(x289, 289 - 230 - 8)),
                                 Shl64(s293, 293 - 230 - 8)),
                s193 |-> Xor64(Shr(s.s193, 8), Shl64(s230, 230 - 193 - 8)),
                s154 |-> Xor64(Shr(s.s154, 8), Shl64(s193, 193 - 154 - 8)),
                s107 |-> Xor64(Shr(s.s107, 8), Shl64(s154, 154 - 107 - 8)),
                s61  |-> Xor64(Shr(s.s61, 8), Shl64(s107, 107 - 61 - 8)),
                s0   |-> Xor64(Shr(s.s0, 8), Shl64(s61, 61 - 8))],
         ks |-> ks]

\* update32 with the mask of update8 left on the feedback word
update32Masked(s, m, ca, cb) ==
    LET s244 == U32(Shr(s.s230, 14))
        s235 == U32(Shr(s.s230, 5))
        s196 == U32(Shr(s.s193, 3))
        s160 == U32(Shr(s.s154, 6))
        s111 == U32(Shr(s.s107, 4))
        s66  == U32(Shr(s.s61, 5))
        s23  == U32(Shr(s.s0, 23))
        s12  == U32(Shr(s.s0, 12))
        s0   == U32(s.s0)
        x289 == Xor(s235, U32(s.s230))
        s230 == Xor(Xor(U32(s.s230), s196), U32(s.s193))
        s193 == Xor(Xor(U32(s.s193), s160), U32(s.s154))
        s154 == Xor(Xor(U32(s.s154), s111), U32(s.s107))
        s107 == Xor(Xor(U32(s.s107), s66), U32(s.s61))
        s61  == Xor(Xor(U32(s.s61), s23), s0)
        ks   == Xor(Xor(Xor(s12, s154), maj(s235, s61, s193)), ch(s230, s111, s66))
        f    == Lo8(Xor(Xor(Xor(Xor(s0, Not32(s107)), maj(s244, s23, s160)),
                            And(ca, s196)), And(cb, ks)))
        s293 == Xor(f, m)
    IN  [s |-> [s230 |-> Xor64(Xor64(Shr(s.s230, 32), Shl64(x289, 289 - 230 - 32)),
                                 Shl64(s293, 293 - 230 - 32)),
                s193 |-> Xor64(Shr(s.s193, 32), Shl64(s230, 230 - 193 - 32)),
                s154 |-> Xor64(Shr(s.s154, 32), Shl64(s193, 193 - 154 - 32)),
                s107 |-> Xor64(Shr(s.s107, 32), Shl64(s154, 154 - 107 - 32)),
                s61  |-> Xor64(Shr(s.s61, 32), Shl64(s107, 107 - 61 - 32)),
                s0   |-> Xor64(Shr(s.s0, 32), Shl64(s61, 61 - 32))],
         ks |-> ks]

\* same as update8, but with 32-bit shifts and no masks
update32(s, m, ca, cb) ==
    LET s244 == U32(Shr(s.s230, 14))
        s235 == U32(Shr(s.s230, 5))
        s196 == U32(Shr(s.s193, 3))
        s160 == U32(Shr(s.s154, 6))
        s111 == U32(Shr(s.s107, 4))
        s66  == U32(Shr(s.s61, 5))
        s23  == U32(Shr(s.s0, 23))
        s12  == U32(Shr(s.s0, 12))
        s0   == U32(s.s0)
        x289 == Xor(s235, U32(s.s230))
        s230 == Xor(Xor(U32(s.s230), s196), U32(s.s193))
        s193 == Xor(Xor(U32(s.s193), s160), U32(s.s154))
        s154 == Xor(Xor(U32(s.s154), s111), U32(s.s107))
        s107 == Xor(Xor(U32(s.s107), s66), U32(s.s61))
        s61  == Xor(Xor(U32(s.s61), s23), s0)
        ks   == Xor(Xor(Xor(s12, s154), maj(s235, s61, s193)), ch(s230, s111, s66))
        f    == Xor(Xor(Xor(Xor(s0, Not32(s107)), maj(s244, s23, s160)),
                        And(ca, s196)), And(cb, ks))
        s293 == Xor(f, m)
    IN  [s |-> [s230 |-> Xor64(Xor64(Shr(s.s230, 32), Shl64(x289, 289 - 230 - 32)),
                                 Shl64(s293, 293 - 230 - 32)),
                s193 |-> Xor64(Shr(s.s193, 32), Shl64(s230, 230 - 193 - 32)),
                s154 |-> Xor64(Shr(s.s154, 32), Shl64(s193, 193 - 154 - 32)),
                s107 |-> Xor64(Shr(s.s107, 32), Shl64(s154, 154 - 107 - 32)),
                s61  |-> Xor64(Shr(s.s61, 32), Shl64(s107, 107 - 61 - 32)),
                s0   |-> Xor64(Shr(s.s0, 32), Shl64(s61, 61 - 32))],
         ks |-> ks]

\* ------------------------------------------------- the sequencing protocol
(* A register in use is a record M with the state M.s and M.tr, the calls    *)
(* made on it so far in order: <<"reset">>, <<"update8", m, ca, cb>> or      *)
(* <<"update32", m, ca, cb>>.  M.ks is the keystream the last call returned, *)
(* M.out the keystream words the update calls returned, in order.           *)

NewState == [s |-> ZeroState, tr |-> <<>>, ks |-> zero, out |-> <<>>]

\* the register M after the call named in the trace entry, which returned r
Called(M, entry, r) ==
    [s |-> r.s, tr |-> Append(M.tr, entry), ks |-> r.ks, out |-> Append(M.out, r.ks)]

\* an update8 call that takes cb for 0
Call8NoMode(M, m, ca, cb) == Called(M, <<"update8", m, ca, cb>>, update8(M.s, m, ca, zero))

\* s.update8(m, ca, cb) on the register M
Call8(M, m, ca, cb) == Called(M, <<"update8", m, ca, cb>>, update8(M.s, m, ca, cb))

\* s.update32(m, ca, cb) on the register M
Call32(M, m, ca, cb) == Called(M, <<"update32", m, ca, cb>>, update32(M.s, m, ca, cb))

\* *s = state{}
reset(M) == [s |-> ZeroState, tr |-> Append(M.tr, <<"reset">>), ks |-> M.ks, out |-> M.out]

\* the four bytes read high byte first
BigEndianUint32(b, i) ==
    UNION {{j + 8 * (3 - n) : j \in WordOfByte(b[i + n + 1])} : n \in 0..3}

\* binary.LittleEndian.Uint32(b[i:]) with i counted from 0
LittleEndianUint32(b, i) ==
    UNION {{j + 8 * n : j \in WordOfByte(b[i + n + 1])} : n \in 0..3}

\* binary.LittleEndian.PutUint32: the four bytes of the word, low byte first
LittleEndianBytes(w) == [n \in 1..4 |-> ByteOfWord(Shr(w, 8 * (n - 1)))]

(* A loop is a recursive operator on the loop's state L: the register L.M    *)
(* and the loop variable L.i.                                                *)

\* for i := range k { s.update32(uint32(k[i]), one, one) }
RECURSIVE initKey(_, _)
initKey(L, k) ==
    IF L.i < 4
    THEN initKey([M |-> Call32(L.M, k[L.i + 1], one, one), i |-> L.i + 1], k)
    ELSE L.M

\* for i := range iv { s.update8(uint32(iv[i]), one, one) }
RECURSIVE initIV(_, _)
initIV(L, iv) ==
    IF L.i < Len(iv)
    THEN initIV([M |-> Call8(L.M, WordOfByte(iv[L.i + 1]), one, one), i |-> L.i + 1], iv)
    ELSE L.M

\* a last loop of init that stops one round early
RECURSIVE initRestShort(_, _)
initRestShort(L, k) ==
    IF L.i < 1536 - 32
    THEN initRestShort([M |-> Call32(L.M, k[((L.i % 128) \div 32) + 1], one, one),
                        i |-> L.i + 32], k)
    ELSE L.M

\* for i := 32; i < 1536; i += 32 { s.update32(uint32(k[i%128/32]), one, one) }
RECURSIVE initRest(_, _)
initRest(L, k) ==
    IF L.i < 1536
    THEN initRest([M |-> Call32(L.M, k[((L.i % 128) \div 32) + 1], one, one),
                   i |-> L.i + 32], k)
    ELSE L.M

\* an init that does k[0] ^= 1 in the key array it was handed
initWritesKey(M, k, iv) ==
    LET M0 == reset(M)
    IN  IF Len(iv) * 8 # 128
        THEN [M |-> M0, ok |-> FALSE, k |-> k]
        ELSE LET M1 == initKey([M |-> M0, i |-> 0], k)
                 M2 == initIV([M |-> M1, i |-> 0], iv)
                 M3 == Call32(M2, Xor(k[1], {0}), one, one)
             IN  [M |-> initRest([M |-> M3, i |-> 32], k), ok |-> TRUE,
                  k |-> [k EXCEPT ![1] = Xor(k[1], {0})]]

(* init(k *[4]uint32, iv): resets first and only then checks the iv; ok =   *)
(* FALSE is its panic.  k is a pointer to the AEAD's key: the result gives  *)
(* the key array as init leaves it (it only reads it).                      *)
init(M, k, iv) ==
    LET M0 == reset(M)
    IN  IF Len(iv) * 8 # 128
        THEN [M |-> M0, ok |-> FALSE, k |-> k]
        ELSE LET M1 == initKey([M |-> M0, i |-> 0], k)
                 M2 == initIV([M |-> M1, i |-> 0], iv)
                 M3 == Call32(M2, Xor(k[1], {0}), one, one)
             IN  [M |-> initRest([M |-> M3, i |-> 32], k), ok |-> TRUE, k |-> k]

\* a first loop of pad that runs once more
RECURSIVE padOnesLong(_, _)
padOnesLong(L, cb) ==
    IF L.i < 160
    THEN padOnesLong([M |-> Call32(L.M, zero, one, cb), i |-> L.i + 32], cb)
    ELSE L.M

\* for i := 32; i < 128; i += 32 { s.update32(0x00, one, cb) }
RECURSIVE padOnes(_, _)
padOnes(L, cb) ==
    IF L.i < 128
    THEN padOnes([M |-> Call32(L.M, zero, one, cb), i |-> L.i + 32], cb)
    ELSE L.M

\* for i := 128; i < 256; i += 32 { s.update32(0x00, 0, cb) }
RECURSIVE padZeros(_, _)
padZeros(L, cb) ==
    IF L.i < 256
    THEN padZeros([M |-> Call32(L.M, zero, zero, cb), i |-> L.i + 32], cb)
    ELSE L.M

\* a pad that leaves out the 1 bit
padNoBit(M, cb) == padZeros([M |-> padOnes([M |-> Call32(M, zero, one, cb), i |-> 32], cb),
                             i |-> 128], cb)

pad(M, cb) ==
    LET M1 == Call32(M, {0}, one, cb)
        M2 == padOnes([M |-> M1, i |-> 32], cb)
    IN  padZeros([M |-> M2, i |-> 128], cb)

\* for _, x := range ad { s.update8(uint32(x), one, one) }
RECURSIVE processLoop(_, _)
processLoop(L, ad) ==
    IF L.i < Len(ad)
    THEN processLoop([M |-> Call8(L.M, WordOfByte(ad[L.i + 1]), one, one),
                      i |-> L.i + 1], ad)
    ELSE L.M

\* a process that leaves out the associated data
processNoAD(M, ad) == pad(M, one)

\* a process that pads only when there is associated data
processEmptyNoPad(M, ad) ==
    IF ad = <<>> THEN M ELSE pad(processLoop([M |-> M, i |-> 0], ad), one)

process(M, ad) == pad(processLoop([M |-> M, i |-> 0], ad), one)

(* crypt's two loops also carry L.dst, the bytes written to dst so far, and *)
(* L.ks, the keystream bytes drawn so far.                                  *)

\* ks := s.update32(x, one, mode); binary.LittleEndian.PutUint32(dst[i:], x^ks)
cryptWord(L, x, M1) ==
    [M |-> M1,
     dst |-> L.dst \o LittleEndianBytes(Xor(x, M1.ks)),
     ks |-> L.ks \o LittleEndianBytes(M1.ks),
     i |-> L.i + 4]

\* for ; i+4 <= len(src); i += 4 { ... }
RECURSIVE cryptWide(_, _, _)
cryptWide(L, src, mode) ==
    IF L.i + 4 <= Len(src)
    THEN cryptWide(cryptWord(L, LittleEndianUint32(src, L.i),
                             Call32(L.M, LittleEndianUint32(src, L.i), one, mode)),
                   src, mode)
    ELSE L

\* ks := s.update8(uint32(x), one, mode); dst[i] = x ^ uint8(ks)
cryptByte(L, x, M1) ==
    [M |-> M1,
     dst |-> Append(L.dst, ByteOfWord(Xor(WordOfByte(x), Lo8(M1.ks)))),
     ks |-> Append(L.ks, ByteOfWord(M1.ks)),
     i |-> L.i + 1]

\* for ; i < len(src); i++ { ... }
RECURSIVE cryptNarrow(_, _, _)
cryptNarrow(L, src, mode) ==
    IF L.i < Len(src)
    THEN cryptNarrow(cryptByte(L, src[L.i + 1],
                               Call8(L.M, WordOfByte(src[L.i + 1]), one, mode)),
                     src, mode)
    ELSE L

\* s.pad(0), after the two loops left L
cryptPad(L) == [M |-> pad(L.M, zero), dst |-> L.dst, ks |-> L.ks]

\* crypt(dst, src, mode): the register after it, the bytes written to dst
crypt(M, src, mode) ==
    cryptPad(cryptNarrow(cryptWide([M |-> M, dst |-> <<>>, ks |-> <<>>, i |-> 0],
                                   src, mode),
                         src, mode))

\* for i := 0; i < 640; i += 32 { s.update32(0, one, one) }
RECURSIVE finalizeWide(_)
finalizeWide(L) ==
    IF L.i < 640
    THEN finalizeWide([M |-> Call32(L.M, zero, one, one), i |-> L.i + 32])
    ELSE L.M

\* for i := range tag[:16] { ks := s.update8(0, one, one); tag[i] = uint8(ks) }
\* tag[i] = uint8(ks)
tagByte(L, M1) == [M |-> M1, tag |-> Append(L.tag, ByteOfWord(M1.ks)), i |-> L.i + 1]

RECURSIVE finalizeTag(_)
finalizeTag(L) ==
    IF L.i < 16
    THEN finalizeTag(tagByte(L, Call8(L.M, zero, one, one)))
    ELSE [M |-> L.M, tag |-> L.tag]

\* finalize(tag): the register after it and the 16 tag bytes
finalize(M) ==
    finalizeTag([M |-> finalizeWide([M |-> M, i |-> 0]), tag |-> <<>>, i |-> 0])

\* ----------------------------------------------------------------- aead.go

KeySize == 16
NonceSize == 16
TagSize == 16

Zeros(n) == [i \in 1..n |-> 0]

(* NewAEAD(key): the object with the key as four little-endian words, or    *)
(* the panic.                                                               *)
NewAEAD(key) ==
    IF Len(key) # KeySize
    THEN [state |-> "panic", msg |-> "acorn: invalid key length", key |-> <<>>]
    ELSE [state |-> "ok", msg |-> "",
          key |-> <<LittleEndianUint32(key, 0 * 4), LittleEndianUint32(key, 1 * 4),
                    LittleEndianUint32(key, 2 * 4), LittleEndianUint32(key, 3 * 4)>>]

aeadNonceSize == NonceSize

aeadOverhead == TagSize

\* a comparison that leaves out the last byte
CompareButLast(x, y) == IF SubSeq(x, 1, Len(x) - 1) = SubSeq(y, 1, Len(y) - 1) THEN 1 ELSE 0

\* subtle.ConstantTimeCompare(x, y): 1 when the slices are equal, else 0
ConstantTimeCompare(x, y) == IF x = y THEN 1 ELSE 0

(* A call in progress is a frame: the arguments as passed (dst, nonce, text, *)
(* ad), the local register M (var s state), the position pc, and            *)
(*   mem   the caller's plaintext bytes as they are in memory now,          *)
(*   buf   Seal's dst after append / Open's pl,                             *)
(*   ks    the keystream bytes crypt drew,  tag  what finalize returned,    *)
(*   ret, err, panic   what the call returned ("" when not set),            *)
(*   key0  the object's key when the call was entered,                      *)
(*   mixed whether a part of another caller's call ran during this call.    *)
(* Seal's dst is a slice [pre, cap, inplace]: its bytes, its capacity, and  *)
(* whether it is plaintext[:0], the in-place use of cipher.AEAD, whose      *)
(* capacity is the plaintext's.  src records where Open's input came from.  *)

NilSlice == [pre |-> <<>>, cap |-> 0, inplace |-> FALSE]

\* a sealed message on its way: Seal's arguments, and its output after dst
NoMsg == [full |-> FALSE, nonce |-> <<>>, ad |-> <<>>, text |-> <<>>,
          dst |-> NilSlice, out |-> <<>>]
Msg(f) == [full |-> TRUE, nonce |-> f.nonce, ad |-> f.ad, text |-> f.text,
           dst |-> f.dst, out |-> SubSeq(f.ret, Len(f.dst.pre) + 1, Len(f.ret))]

\* where an Open's input came from: the message, and the bit flipped (-1: none)
Src(w, flip) == [msg |-> w, flip |-> flip]

Frame(op, key, dst, nonce, text, ad, src) ==
    [op |-> op, dst |-> dst, nonce |-> nonce, text |-> text, ad |-> ad, src |-> src,
     key0 |-> key, M |-> NewState, pc |-> "init", mem |-> text, buf |-> <<>>, ks |-> <<>>,
     tag |-> <<>>, ret |-> <<>>, err |-> "", panic |-> "", mixed |-> FALSE]

\* Seal up to its first call on the register: var s state; the nonce check
SealEnter(a, dst, nonce, plaintext, additionalData) ==
    LET f == Frame("Seal", a.key, dst, nonce, plaintext, additionalData, Src(NoMsg, -1))
    IN  IF Len(nonce) # NonceSize
        THEN [f EXCEPT !.pc = "done", !.panic = "acorn: invalid nonce length"]
        ELSE f

\* Open up to its first call on the register: var s state
OpenEnter(a, dst, nonce, ciphertext, additionalData, src) ==
    Frame("Open", a.key, dst, nonce, ciphertext, additionalData, src)

\* s.init(&a.key, nonce), of Seal and of Open
initReturned(f, a, r) ==
    [f |-> IF r.ok
           THEN [f EXCEPT !.M = r.M, !.pc = "process"]
           ELSE [f EXCEPT !.M = r.M, !.pc = "done", !.panic = "acorn: invalid iv length"],
     a |-> [a EXCEPT !.key = r.k]]

callInit(f, a) == initReturned(f, a, init(f.M, a.key, f.nonce))

\* s.process(additionalData), of Seal and of Open
callProcess(f) == [f EXCEPT !.M = process(f.M, f.ad), !.pc = "crypt"]

(* Seal: dst = append(dst, make([]byte, len(plaintext)+TagSize)...) and      *)
(* s.crypt(dst[i:j], plaintext, 0).  append writes the zero bytes in place  *)
(* when the capacity allows, else into a new array; in place on             *)
(* plaintext[:0] they land on the plaintext, which crypt then reads.        *)
appendInPlace(f) ==
    LET i    == Len(f.dst.pre)
        grow == Len(f.text) + TagSize
    IN  i + grow <= f.dst.cap

\* the plaintext bytes in memory once append has returned
afterAppend(f) ==
    IF f.dst.inplace /\ appendInPlace(f) THEN Zeros(Len(f.text)) ELSE f.mem

\* crypt has written C.dst to dst[i:j]
sealCrypted(f, C) ==
    [f EXCEPT !.M = C.M, !.pc = "finalize",
              !.buf = f.dst.pre \o C.dst \o Zeros(TagSize),
              !.mem = IF f.dst.inplace /\ appendInPlace(f) THEN C.dst ELSE f.mem,
              !.ks = C.ks]

sealCrypt(f) == sealCrypted(f, crypt(f.M, afterAppend(f), zero))

\* Seal: s.finalize(dst[j:k]); return dst
sealReturn(f, F) ==
    LET j == Len(f.dst.pre) + Len(f.text)
    IN  [f EXCEPT !.M = F.M, !.pc = "done", !.tag = F.tag,
                  !.buf = SubSeq(f.buf, 1, j) \o F.tag,
                  !.ret = SubSeq(f.buf, 1, j) \o F.tag]

sealFinalize(f) == sealReturn(f, finalize(f.M))

\* crypt has written C.dst to pl
openCrypted(f, C) == [f EXCEPT !.M = C.M, !.pc = "finalize", !.buf = C.dst, !.ks = C.ks]

\* an Open that decrypts in Seal's mode
openCryptSealMode(f) ==
    LET n == Len(f.text) - TagSize
    IN  IF n < 0
        THEN [f EXCEPT !.pc = "done", !.panic = "slice bounds out of range"]
        ELSE openCrypted(f, crypt(f.M, SubSeq(f.text, 1, n), zero))

(* Open: n := len(ciphertext) - TagSize; data := ciphertext[:n] (a panic    *)
(* when n < 0); pl := make([]byte, n); s.crypt(pl, data, one)               *)
openCrypt(f) ==
    LET n == Len(f.text) - TagSize
    IN  IF n < 0
        THEN [f EXCEPT !.pc = "done", !.panic = "slice bounds out of range"]
        ELSE openCrypted(f, crypt(f.M, SubSeq(f.text, 1, n), one))

\* an Open that returns the candidate plaintext with the error
openReturnLeaks(f, F) ==
    [f EXCEPT !.M = F.M, !.pc = "done", !.tag = F.tag, !.ret = f.dst.pre \o f.buf,
              !.err = IF ConstantTimeCompare(SubSeq(f.text, Len(f.text) - TagSize + 1,
                                                    Len(f.text)), F.tag) = 0
                      THEN "acorn: decryption failed" ELSE "nil"]

\* Open: expectedTag := s.finalize(...); the comparison; the two returns
openReturn(f, F) ==
    LET n   == Len(f.text) - TagSize
        tag == SubSeq(f.text, n + 1, Len(f.text))
    IN  IF ConstantTimeCompare(tag, F.tag) = 0
        THEN [f EXCEPT !.M = F.M, !.pc = "done", !.tag = F.tag,
                       !.ret = f.dst.pre, !.err = "acorn: decryption failed"]
        ELSE [f EXCEPT !.M = F.M, !.pc = "done", !.tag = F.tag,
                       !.ret = f.dst.pre \o f.buf, !.err = "nil"]

openFinalize(f) == openReturn(f, finalize(f.M))

\* the next part of the call in frame f on the object a
StepCall(f, a) ==
    CASE f.pc = "init" -> callInit(f, a)
      [] f.pc = "process" -> [f |-> callProcess(f), a |-> a]
      [] f.pc = "crypt" ->
            [f |-> IF f.op = "Seal" THEN sealCrypt(f) ELSE openCrypt(f), a |-> a]
      [] f.pc = "finalize" ->
            [f |-> IF f.op = "Seal" THEN sealFinalize(f) ELSE openFinalize(f), a |-> a]

\* the whole call, from entry to return or panic
RECURSIVE RunCall(_)
RunCall(R) == IF R.f.pc = "done" THEN R ELSE RunCall(StepCall(R.f, R.a))

Seal(a, dst, nonce, plaintext, additionalData) ==
    RunCall([f |-> SealEnter(a, dst, nonce, plaintext, additionalData), a |-> a])

Open(a, dst, nonce, ciphertext, additionalData, src) ==
    RunCall([f |-> OpenEnter(a, dst, nonce, ciphertext, additionalData, src), a |-> a])

\* ------------------------------------------------------------------ inputs

\* the longest plaintext and the longest associated data of a call
MaxPlain == 5
MaxAD == 2

Const(n, v) == [i \in 1..n |-> v]
\* the byte pattern of the repository's test vectors: 0, step, 2*step, ...
Ramp(n, step) == [i \in 1..n |-> (step * (i - 1)) % 256]

ZeroKey == Const(KeySize, 0)
ZeroNonce == Const(NonceSize, 0)
Keys == {ZeroKey, Ramp(KeySize, 1)}
BadKeys == {Const(KeySize - 1, 0), Const(KeySize + 1, 0)}
Nonces == {ZeroNonce, Ramp(NonceSize, 3)}
BadNonces == {Const(NonceSize - 1, 0), Const(NonceSize + 1, 0)}
Plaintexts == {Const(n, 1) : n \in 0..MaxPlain}
ADs == {Const(n, v) : n \in 0..MaxAD, v \in {0, 1}}

\* a dst with bytes already in it: with no spare capacity, and with plenty
PrefixSlice == [pre |-> <<170, 187>>, cap |-> 2, inplace |-> FALSE]
RoomySlice == [pre |-> <<170>>, cap |-> 64, inplace |-> FALSE]
\* plaintext[:0] of a plaintext with capacity cap
InPlace(cap) == [pre |-> <<>>, cap |-> cap, inplace |-> TRUE]

Args(dst, nonce, text, ad) == [dst |-> dst, nonce |-> nonce, text |-> text, ad |-> ad]

(* The Seal calls made: every plaintext with every associated data; the     *)
(* second nonce; a nonce of the wrong length; a dst that holds bytes; the   *)
(* in-place call, on a plaintext with and without room for the tag.         *)
SealArgs ==
    {Args(NilSlice, ZeroNonce, p, ad) : p \in Plaintexts, ad \in ADs}
    \cup {Args(NilSlice, n, Const(MaxPlain, 1), ad) :
            n \in Nonces \ {ZeroNonce}, ad \in {<<>>, <<1>>}}
    \cup {Args(NilSlice, n, <<1>>, <<>>) : n \in BadNonces}
    \cup {Args(d, ZeroNonce, p, <<>>) :
            d \in {PrefixSlice, RoomySlice}, p \in {<<1>>, Const(MaxPlain, 1)}}
    \cup {Args(InPlace(Len(p) + c), ZeroNonce, p, <<>>) :
            p \in {<<1>>, Const(MaxPlain, 1)}, c \in {0, TagSize}}

\* ct with bit b flipped (bit b % 8 of byte b \div 8, bytes counted from 0)
Flip(ct, b) ==
    LET k == b \div 8 + 1
        w == Pow2(b % 8)
    IN  [ct EXCEPT ![k] = IF (ct[k] \div w) % 2 = 1 THEN ct[k] - w ELSE ct[k] + w]

IdleFrame == [Frame("none", <<>>, NilSlice, <<>>, <<>>, <<>>, Src(NoMsg, -1)) EXCEPT !.pc = "idle"]

\* ------------------------------------------------------------ the program
(* aead   the object NewAEAD returned (state "none" before construction)    *)
(* calls  each caller's call: idle, in progress, or done and not yet taken  *)
(* wire   the sealed message in flight, which Open is given                 *)
(* reg    a register driven directly, for the transition engine             *)

(* aead is the AEAD object, calls the call each caller has under way, wire   *)
(* the sealed message in flight.  reg is a register driven call by call:    *)
(* reg.s its state, reg.ks what the last call returned, reg.n the calls     *)
(* made, reg.op the last call, and reg.alt, reg.altks the state and the     *)
(* keystream had the last call been made the other way: an update32 as four *)
(* update8 calls, an update8 as eight steps of one bit, a crypt byte by     *)
(* byte or followed by the crypt of the other mode.  reg.tr is the calls    *)
(* the last pad or crypt made, reg.src and reg.dst what crypt read and      *)
(* wrote, reg.altdst what it wrote the other way, reg.mode the cb or mode   *)
(* it was called with, reg.kss the keystream bytes drawn the other way,     *)
(* reg.tag and reg.alttag what finalize then returns on either register.    *)
VARIABLES aead, calls, wire, reg

vars == <<aead, calls, wire, reg>>

Callers == {"c1", "c2"}

EngineAt(S) ==
    [s |-> S, ks |-> zero, alt |-> S, altks |-> zero, n |-> 0, op |-> "none",
     tr |-> <<>>, mode |-> zero, src |-> <<>>, dst |-> <<>>, altdst |-> <<>>,
     kss |-> <<>>, tag |-> <<>>, alttag |-> <<>>]

Init ==
    /\ aead = [state |-> "none", msg |-> "", key |-> <<>>]
    /\ calls = [c \in Callers |-> IdleFrame]
    /\ wire = NoMsg
    /\ reg = EngineAt(ZeroState)

ZeroKeyWords == <<zero, zero, zero, zero>>

\* the messages of which every bit is flipped in turn
FullTamper(w) ==
    /\ w.ad = <<>> /\ w.nonce = ZeroNonce /\ w.dst = NilSlice
    /\ aead.key = ZeroKeyWords \/ Len(w.text) = MaxPlain

OpenArg(dst, nonce, text, ad, src) ==
    [dst |-> dst, nonce |-> nonce, text |-> text, ad |-> ad, src |-> src]

(* The Open calls made on the message w in flight: as sent, with every      *)
(* associated data; under another nonce and under a nonce of the wrong      *)
(* length; with one bit flipped; into a dst that holds bytes.               *)
OpenArgs(w) ==
    {OpenArg(NilSlice, w.nonce, w.out, ad, Src(w, -1)) : ad \in ADs}
    \cup {OpenArg(NilSlice, n, w.out, w.ad, Src(w, -1)) :
            n \in (Nonces \ {w.nonce}) \cup BadNonces}
    \cup {OpenArg(NilSlice, w.nonce, Flip(w.out, b), w.ad, Src(w, b)) :
            b \in IF FullTamper(w) THEN 0..(8 * Len(w.out) - 1) ELSE {0}}
    \cup {OpenArg(PrefixSlice, w.nonce, w.out, w.ad, Src(w, -1)),
          OpenArg(PrefixSlice, w.nonce, Flip(w.out, 8 * Len(w.out) - 1), w.ad,
                  Src(w, 8 * Len(w.out) - 1))}

\* Open calls on input that no Seal produced: too short for a tag, or zeros
JunkArgs ==
    {OpenArg(d, ZeroNonce, Zeros(n), <<>>, Src(NoMsg, -1)) :
        d \in {NilSlice, PrefixSlice}, n \in {0, TagSize - 1, TagSize, TagSize + 1}}

\* a second Seal while w is in flight: the same call but for the associated data
Resend(x, w) == x.nonce = w.nonce /\ x.text = w.text /\ x.dst = w.dst /\ w.dst = NilSlice

New(key) ==
    /\ aead.state = "none"
    /\ aead' = NewAEAD(key)
    /\ UNCHANGED <<calls, wire, reg>>

\* the call of caller c ends as R: its frame R.f, the object R.a after it
Sealed(c, R) ==
    /\ calls' = [calls EXCEPT ![c] = R.f]
    /\ aead' = R.a
    /\ wire' = IF ~wire.full /\ R.f.panic = "" THEN Msg(R.f) ELSE wire

Opened(c, R) ==
    /\ calls' = [calls EXCEPT ![c] = R.f]
    /\ aead' = R.a

\* caller c runs one Seal from entry to return
DoSeal(c, x) ==
    /\ aead.state = "ok"
    /\ calls[c].pc = "idle"
    /\ ~wire.full \/ Resend(x, wire)
    /\ Sealed(c, Seal(aead, x.dst, x.nonce, x.text, x.ad))
    /\ UNCHANGED reg

\* caller c runs one Open from entry to return
DoOpen(c, o) ==
    /\ aead.state = "ok"
    /\ calls[c].pc = "idle"
    /\ Opened(c, Open(aead, o.dst, o.nonce, o.text, o.ad, o.src))
    /\ UNCHANGED <<wire, reg>>

\* caller c takes the result of its call
Return(c) ==
    /\ calls[c].pc = "done"
    /\ calls' = [calls EXCEPT ![c] = IdleFrame]
    /\ UNCHANGED <<aead, wire, reg>>

(* Spec: one caller, one call at a time.                                    *)
Next ==
    \/ \E key \in Keys \cup BadKeys : New(key)
    \/ \E x \in SealArgs : DoSeal("c1", x)
    \/ \E o \in IF wire.full THEN OpenArgs(wire) ELSE JunkArgs : DoOpen("c1", o)
    \/ Return("c1")

Spec == Init /\ [][Next]_vars

(* SpecEngine: the register alone, from the zero state or from what init   *)
(* leaves, driven by reset, update8 and update32 calls.                     *)

\* the calls made on the register in one run
MaxCalls == 2

\* byte j (0 the lowest) of the word w
ByteAt(w, j) == Lo8(Shr(w, 8 * j))

\* a word with bits set in every byte, no two bytes alike
Mixed == {0, 9, 10, 19, 20, 21, 24, 31}

EngineWords == {zero, Mixed}
EngineMasks == {zero, one, Mixed}
\* the m of update8: a byte, and a word with bits above the low byte
EngineBytes == {ByteAt(Mixed, 2), Mixed}

EngineStarts ==
    {ZeroState}
    \cup {init(NewState, NewAEAD(key).key, nonce).M.s : key \in Keys, nonce \in Nonces}

\* the j-th of four update8 calls has returned r
narrowByte(L, r) ==
    [s |-> r.s, ks |-> L.ks \cup {b + 8 * L.i : b \in r.ks}, i |-> L.i + 1]

(* update8 four times on the bytes of m, ca and cb, low byte first: the      *)
(* state after them and the four keystream bytes as one word, low first     *)
RECURSIVE fourUpdate8(_, _, _, _)
fourUpdate8(L, m, ca, cb) ==
    IF L.i < 4
    THEN fourUpdate8(narrowByte(L, update8(L.s, ByteAt(m, L.i), ByteAt(ca, L.i),
                                           ByteAt(cb, L.i))),
                     m, ca, cb)
    ELSE [s |-> L.s, ks |-> {b : b \in L.ks}]

(* The register as 293 bits s[0..292]: bit j of the segment that starts at  *)
(* boundary b is bit b + j.                                                 *)
Boundaries == <<0, 61, 107, 154, 193, 230, 293>>

Bits293(S) ==
    {j : j \in S.s0 \cup {b + 61 : b \in S.s61} \cup {b + 107 : b \in S.s107}
                    \cup {b + 154 : b \in S.s154} \cup {b + 193 : b \in S.s193}
                    \cup {b + 230 : b \in S.s230}}

\* the bits of B from boundary lo up to the next boundary hi, as a segment
Segment(B, lo, hi) == {j - lo : j \in B \cap (lo..(hi - 1))}

Segments(B) ==
    [s230 |-> Segment(B, 230, 293), s193 |-> Segment(B, 193, 230),
     s154 |-> Segment(B, 154, 193), s107 |-> Segment(B, 107, 154),
     s61 |-> Segment(B, 61, 107), s0 |-> Segment(B, 0, 61)]

\* s[t] ^= s[a] ^ s[b]
feedback(B, t, a, b) ==
    IF (a \in B) # (b \in B) THEN {j : j \in (B \ {t}) \cup ({t} \ B)} ELSE B

\* the six feedbacks of one step, in their order
feedbacks(B) ==
    feedback(feedback(feedback(feedback(feedback(feedback(B, 289, 235, 230),
        230, 196, 193), 193, 160, 154), 154, 111, 107), 107, 66, 61), 61, 23, 0)

majBit(x, y, z) == (x /\ y) # ((x /\ z) # (y /\ z))
chBit(x, y, z) == (x /\ y) # (~x /\ z)

\* ks = s12 ^ s154 ^ maj(s235, s61, s193) ^ ch(s230, s111, s66)
ksBit(B) ==
    (12 \in B) # ((154 \in B) # (majBit(235 \in B, 61 \in B, 193 \in B)
                                 # chBit(230 \in B, 111 \in B, 66 \in B)))

\* f = s0 ^ NOT s107 ^ maj(s244, s23, s160) ^ (ca AND s196) ^ (cb AND ks)
fBit(B, ca, cb, ks) ==
    (0 \in B) # ((107 \notin B) # (majBit(244 \in B, 23 \in B, 160 \in B)
                                   # ((ca /\ 196 \in B) # (cb /\ ks))))

\* every bit one position down, and s292 = f ^ m
shiftIn(B, top) == {j - 1 : j \in B \ {0}} \cup (IF top THEN {292} ELSE {})

\* the rest of the step on B, the bits after the feedbacks, with keystream bit ks
stepOut(B, m, ca, cb, ks) == [B |-> shiftIn(B, fBit(B, ca, cb, ks) # m), ks |-> ks]

stepBits(B, m, ca, cb) == stepOut(B, m, ca, cb, ksBit(B))

\* one step of one bit on the 293 bits B with the bits m, ca, cb
step(B, m, ca, cb) == stepBits(feedbacks(B), m, ca, cb)

\* step i of eight has returned r
serialBit(L, r) ==
    [B |-> r.B, ks |-> IF r.ks THEN L.ks \cup {L.i} ELSE L.ks, i |-> L.i + 1]

\* eight steps on bits 0..7 of m, ca, cb: the segments after them, the keystream byte
RECURSIVE eightSteps(_, _, _, _)
eightSteps(L, m, ca, cb) ==
    IF L.i < 8
    THEN eightSteps(serialBit(L, step(L.B, L.i \in m, L.i \in ca, L.i \in cb)), m, ca, cb)
    ELSE [s |-> Segments(L.B), ks |-> {b : b \in L.ks}]

EngineInit ==
    /\ aead = [state |-> "none", msg |-> "", key |-> <<>>]
    /\ calls = [c \in Callers |-> IdleFrame]
    /\ wire = NoMsg
    /\ reg \in {EngineAt(S) : S \in EngineStarts}

\* the call op on the register returned r; made the other way it returned q
EngineCalled(op, r, q) ==
    /\ reg' = [EngineAt(r.s) EXCEPT !.ks = r.ks, !.alt = q.s, !.altks = q.ks,
                                    !.n = reg.n + 1, !.op = op]
    /\ UNCHANGED <<aead, calls, wire>>

EngineUpdate32(m, ca, cb) ==
    /\ reg.n < MaxCalls
    /\ EngineCalled("update32", update32(reg.s, m, ca, cb),
                    fourUpdate8([s |-> reg.s, ks |-> zero, i |-> 0], m, ca, cb))

EngineUpdate8(m, ca, cb) ==
    /\ reg.n < MaxCalls
    /\ EngineCalled("update8", update8(reg.s, m, ca, cb),
                    eightSteps([B |-> Bits293(reg.s), ks |-> zero, i |-> 0], m, ca, cb))

EngineReset ==
    /\ reg.n < MaxCalls
    /\ reg.op # "reset"
    /\ reg' = [EngineAt(ZeroState) EXCEPT !.n = reg.n + 1, !.op = "reset"]
    /\ UNCHANGED <<aead, calls, wire>>

NextEngine ==
    \/ \E m \in EngineWords, ca, cb \in EngineMasks : EngineUpdate32(m, ca, cb)
    \/ \E m \in EngineBytes, ca, cb \in {zero, one} : EngineUpdate8(m, ca, cb)
    \/ EngineReset

SpecEngine == EngineInit /\ [][NextEngine]_vars

(* SpecCrypt: the register alone, from the zero state or from what init    *)
(* leaves, driven by pad and crypt calls and by single message units.       *)

\* the pad and crypt calls made on the register in one run
MaxCrypts == 1

\* what crypt is given: constant bytes of every length, and bytes all different
EngineTexts == Plaintexts \cup {Ramp(MaxPlain, 37)}

\* a register at state S on which no call has been made yet
EngineM(S) == [NewState EXCEPT !.s = S]

\* src one byte at a time through update8(byte, one, mode), then pad(0)
cryptBytewise(M, src, mode) ==
    cryptPad(cryptNarrow([M |-> M, dst |-> <<>>, ks |-> <<>>, i |-> 0], src, mode))

\* pad(cb) has left the register as P
EnginePadded(cb, P) ==
    /\ reg' = [EngineAt(P.s) EXCEPT !.n = reg.n + 1, !.op = "pad", !.mode = cb,
                                    !.tr = P.tr, !.alt = P.s]
    /\ UNCHANGED <<aead, calls, wire>>

EnginePad(cb) ==
    /\ reg.n < MaxCrypts
    /\ EnginePadded(cb, pad(EngineM(reg.s), cb))

\* crypt(dst, src, mode) has returned C; made byte by byte it has returned D
EngineCrypted(src, mode, C, D) ==
    /\ reg' = [EngineAt(C.M.s) EXCEPT !.n = reg.n + 1, !.op = "crypt", !.mode = mode,
                                      !.tr = C.M.tr, !.src = src, !.dst = C.dst,
                                      !.alt = D.M.s, !.altdst = D.dst, !.kss = D.ks]
    /\ UNCHANGED <<aead, calls, wire>>

EngineCrypt(src, mode) ==
    /\ reg.n < MaxCrypts
    /\ EngineCrypted(src, mode, crypt(EngineM(reg.s), src, mode),
                     cryptBytewise(EngineM(reg.s), src, mode))

(* crypt with mode 0 has returned C and finalize after it F; crypt with     *)
(* mode one from the same state on what C wrote has returned D, and         *)
(* finalize after it G                                                      *)
EngineTurned(src, C, F, D, G) ==
    /\ reg' = [EngineAt(C.M.s) EXCEPT !.n = reg.n + 1, !.op = "encdec", !.mode = zero,
                                      !.tr = C.M.tr, !.src = src, !.dst = C.dst,
                                      !.alt = D.M.s, !.altdst = D.dst, !.kss = D.ks,
                                      !.tag = F.tag, !.alttag = G.tag]
    /\ UNCHANGED <<aead, calls, wire>>

EngineDecrypted(src, C, D) == EngineTurned(src, C, finalize(C.M), D, finalize(D.M))

EngineEncrypted(src, C) == EngineDecrypted(src, C, crypt(EngineM(reg.s), C.dst, one))

EngineEncDec(src) ==
    /\ reg.n < MaxCrypts
    /\ EngineEncrypted(src, crypt(EngineM(reg.s), src, zero))

\* one unit of plaintext m has gone through r; m ^ ks through q, in mode one
EngineUnit(op, m, r, q) ==
    /\ reg' = [EngineAt(r.s) EXCEPT !.n = reg.n + 1, !.op = op, !.ks = r.ks,
                                    !.alt = q.s, !.altks = q.ks,
                                    !.src = <<m>>, !.dst = <<Xor(m, r.ks)>>,
                                    !.altdst = <<Xor(Xor(m, r.ks), q.ks)>>]
    /\ UNCHANGED <<aead, calls, wire>>

EngineWide(m, r) == EngineUnit("encdec32", m, r, update32(reg.s, Xor(m, r.ks), one, one))

EngineEncDec32(m) ==
    /\ reg.n < MaxCrypts
    /\ EngineWide(m, update32(reg.s, m, one, zero))

EngineNarrow(m, r) == EngineUnit("encdec8", m, r, update8(reg.s, Xor(m, r.ks), one, one))

EngineEncDec8(m) ==
    /\ reg.n < MaxCrypts
    /\ EngineNarrow(m, update8(reg.s, m, one, zero))

NextCrypt ==
    \/ \E cb \in EngineMasks : EnginePad(cb)
    \/ \E src \in EngineTexts, mode \in {zero, one} : EngineCrypt(src, mode)
    \/ \E src \in EngineTexts : EngineEncDec(src)
    \/ \E m \in EngineWords \cup {one} : EngineEncDec32(m)
    \/ \E m \in {ByteAt(x, 2) : x \in EngineWords \cup {one}} : EngineEncDec8(m)

SpecCrypt == EngineInit /\ [][NextCrypt]_vars

(* SpecCombiners: maj and ch called on words.                               *)

\* words whose bits 0..7 run through all eight combinations of three bits
CombinerWords == {zero, one, Mixed, {4, 5, 6, 7}, {2, 3, 6, 7}, {1, 3, 5, 7}}

\* maj or ch has returned r on x, y, z
Combined(op, x, y, z, r) ==
    [EngineAt(ZeroState) EXCEPT !.op = op, !.tr = <<x, y, z>>, !.ks = r]

CallMaj(x, y, z) ==
    /\ reg' = Combined("maj", x, y, z, maj(x, y, z))
    /\ UNCHANGED <<aead, calls, wire>>

CallCh(x, y, z) ==
    /\ reg' = Combined("ch", x, y, z, ch(x, y, z))
    /\ UNCHANGED <<aead, calls, wire>>

NextCombiners ==
    \/ \E x, y, z \in CombinerWords : CallMaj(x, y, z)
    \/ \E x, y, z \in CombinerWords : CallCh(x, y, z)

SpecCombiners == Init /\ [][NextCombiners]_vars

Done(f, op) == f.op = op /\ f.pc = "done"

(* SpecConc: two callers on the one object, each call advancing one part   *)
(* at a time (init, process, crypt, finalize), in any interleaving.         *)

ConcSealArgs ==
    {Args(NilSlice, ZeroNonce, <<1>>, <<>>),
     Args(NilSlice, Ramp(NonceSize, 3), Const(MaxPlain, 1), <<1>>),
     Args(NilSlice, Const(NonceSize - 1, 0), <<1>>, <<>>)}

\* Open of the message in flight: as sent, and with its first bit flipped
ConcOpenArgs(w) ==
    {OpenArg(NilSlice, w.nonce, w.out, w.ad, Src(w, -1)),
     OpenArg(NilSlice, w.nonce, Flip(w.out, 0), w.ad, Src(w, 0))}

\* with nothing in flight: an input too short for a tag
ConcJunkArgs == {OpenArg(NilSlice, ZeroNonce, Zeros(TagSize - 1), <<>>, Src(NoMsg, -1))}

EnterSeal(c, x) ==
    /\ aead.state = "ok"
    /\ calls[c].pc = "idle"
    /\ calls' = [calls EXCEPT ![c] = SealEnter(aead, x.dst, x.nonce, x.text, x.ad)]
    /\ UNCHANGED <<aead, wire, reg>>

EnterOpen(c, o) ==
    /\ aead.state = "ok"
    /\ calls[c].pc = "idle"
    /\ calls' = [calls EXCEPT ![c] = OpenEnter(aead, o.dst, o.nonce, o.text, o.ad, o.src)]
    /\ UNCHANGED <<aead, wire, reg>>

Running(f) == f.pc \in {"init", "process", "crypt", "finalize"}

(* the call of caller c has advanced to R; the calls of the others that are *)
(* under way now have had a part of c's call run during them                *)
Stepped(c, R) ==
    /\ calls' = [d \in Callers |->
                   IF d = c THEN R.f
                   ELSE IF Running(calls[d]) THEN [calls[d] EXCEPT !.mixed = TRUE]
                   ELSE calls[d]]
    /\ aead' = R.a
    /\ wire' = IF ~wire.full /\ Done(R.f, "Seal") /\ R.f.panic = ""
               THEN Msg(R.f) ELSE wire

Step(c) ==
    /\ Running(calls[c])
    /\ Stepped(c, StepCall(calls[c], aead))
    /\ UNCHANGED reg

NextConc ==
    \/ \E key \in Keys \cup BadKeys : New(key)
    \/ \E c \in Callers, x \in ConcSealArgs : EnterSeal(c, x)
    \/ \E c \in Callers :
          \E o \in IF wire.full THEN ConcOpenArgs(wire) ELSE ConcJunkArgs : EnterOpen(c, o)
    \/ \E c \in Callers : Step(c)
    \/ \E c \in Callers : Return(c)

SpecConc == Init /\ [][NextConc]_vars

\* ------------------------------------------------------------------ claims

\* an Open of the message in flight as it was sent: same nonce, no bit flipped
Untouched(f) ==
    /\ Done(f, "Open") /\ f.src.msg.full /\ f.src.flip = -1
    /\ f.nonce = f.src.msg.nonce

AuthFailure(f) == f.panic = "" /\ f.err = "acorn: decryption failed"

\* the tag Open was given: the last TagSize bytes of its input
SuppliedTag(f) == SubSeq(f.text, Len(f.text) - TagSize + 1, Len(f.text))

(* C1: Round trip.  An Open into a nil dst of what Seal(nil, n, p, ad)      *)
(* returned, under the same nonce and associated data, returns a nil error  *)
(* and exactly p.                                                           *)
C1_RoundTrip ==
    \A c \in Callers :
        LET f == calls[c]
        IN  (/\ Untouched(f) /\ f.ad = f.src.msg.ad
             /\ f.dst = NilSlice /\ f.src.msg.dst = NilSlice)
            => f.panic = "" /\ f.err = "nil" /\ f.ret = f.src.msg.text

\* a round trip of the longest plaintext (wide and narrow path) with associated data
C1_Witness ==
    \E c \in Callers :
        LET f == calls[c]
        IN  /\ Untouched(f) /\ f.ad = f.src.msg.ad /\ f.ad = <<1, 1>>
            /\ f.dst = NilSlice /\ f.src.msg.dst = NilSlice
            /\ Len(f.src.msg.text) = MaxPlain /\ MaxPlain > 4
            /\ f.err = "nil"

(* C2: When the tag given to Open differs from the tag Open computes, Open  *)
(* returns the authentication error and exactly the caller's dst: nothing   *)
(* of the candidate plaintext or of the expected tag.                       *)
C2_MismatchReturnsDst ==
    \A c \in Callers :
        LET f == calls[c]
        IN  (Done(f, "Open") /\ f.panic = "" /\ SuppliedTag(f) # f.tag)
            => f.err = "acorn: decryption failed" /\ f.ret = f.dst.pre

\* a mismatch with bytes in dst and a candidate plaintext computed
C2_Witness ==
    \E c \in Callers :
        LET f == calls[c]
        IN  /\ Done(f, "Open") /\ f.panic = "" /\ SuppliedTag(f) # f.tag
            /\ f.dst = PrefixSlice /\ Len(f.buf) > 0 /\ f.ret = PrefixSlice.pre

(* C3: Tamper detection.  Open of a Seal output with any one bit flipped    *)
(* (same nonce, same associated data) is an authentication failure and      *)
(* returns no plaintext.                                                    *)
C3_TamperDetected ==
    \A c \in Callers :
        LET f == calls[c]
        IN  (/\ Done(f, "Open") /\ f.src.msg.full /\ f.src.flip >= 0
             /\ f.nonce = f.src.msg.nonce /\ f.ad = f.src.msg.ad)
            => AuthFailure(f) /\ f.ret = f.dst.pre

\* a flipped bit in the last ciphertext byte of the longest message, rejected
C3_Witness ==
    \E c \in Callers :
        LET f == calls[c]
        IN  /\ Done(f, "Open") /\ f.src.msg.full
            /\ Len(f.src.msg.text) = MaxPlain /\ MaxPlain > 4
            /\ f.src.flip = 8 * MaxPlain - 1
            /\ AuthFailure(f)

(* C4: AD binding.  Two Seals that differ only in the associated data give  *)
(* different tags, and Open of a Seal output under other associated data    *)
(* is an authentication failure.                                            *)
C4_ADBinding ==
    \A c \in Callers :
        LET f == calls[c]
        IN  /\ (/\ Done(f, "Seal") /\ f.panic = "" /\ wire.full
                /\ f.nonce = wire.nonce /\ f.text = wire.text /\ f.dst = wire.dst
                /\ f.ad # wire.ad)
               => f.tag # SubSeq(wire.out, Len(wire.out) - TagSize + 1, Len(wire.out))
            /\ (Untouched(f) /\ f.ad # f.src.msg.ad) => AuthFailure(f)

\* a Seal with one zero byte of associated data against the same Seal with none
C4_Witness ==
    \E c \in Callers :
        LET f == calls[c]
        IN  /\ Done(f, "Seal") /\ f.panic = "" /\ wire.full
            /\ f.nonce = wire.nonce /\ f.text = wire.text /\ f.dst = wire.dst
            /\ f.ad = <<0>> /\ wire.ad = <<>> /\ Len(f.text) > 0

\* the tags of the repository's test vectors 1, 2 and 3 (acorn.go, testVectors)
Tag1 == <<131, 94, 83, 23, 137, 110, 134, 178, 68, 113, 67, 199, 79, 111, 252, 30>>
Tag2 == <<75, 96, 100, 14, 38, 240, 169, 157, 208, 31, 147, 191, 99, 73, 151, 203>>
Tag3 == <<152, 46, 247, 209, 187, 167, 248, 154, 21, 117, 41, 122, 9, 92, 215, 242>>

\* what Seal must return for a call of the three vectors (<<>> for any other call)
Vector(text, ad) ==
    CASE text = <<>> /\ ad = <<>> -> Tag1
      [] text = <<1>> /\ ad = <<>> -> <<43>> \o Tag2
      [] text = <<>> /\ ad = <<1>> -> Tag3
      [] OTHER -> <<>>

(* C5: Known-answer vectors.  Under the all-zero key and nonce, Seal of     *)
(* (empty, empty) returns Tag1, Seal of ([0x01], empty) returns 0x2b and    *)
(* Tag2, Seal of (empty, [0x01]) returns Tag3, and Open accepts each of     *)
(* these outputs and returns the vector's plaintext.                        *)
C5_KnownAnswers ==
    \A c \in Callers :
        LET f == calls[c]
        IN  (f.pc = "done" /\ f.key0 = ZeroKeyWords /\ f.nonce = ZeroNonce)
            => /\ (/\ f.op = "Seal" /\ f.dst = NilSlice
                   /\ Vector(f.text, f.ad) # <<>>)
                  => f.ret = Vector(f.text, f.ad)
               /\ (/\ f.op = "Open" /\ f.dst = NilSlice
                   /\ \E p \in {<<>>, <<1>>} :
                         Vector(p, f.ad) # <<>> /\ f.text = Vector(p, f.ad))
                  => /\ f.err = "nil"
                     /\ f.text = Vector(f.ret, f.ad)

\* Open has accepted vector 2 and returned its plaintext
C5_Witness ==
    \E c \in Callers :
        LET f == calls[c]
        IN  /\ Done(f, "Open") /\ f.key0 = ZeroKeyWords /\ f.nonce = ZeroNonce
            /\ f.text = <<43>> \o Tag2 /\ f.ad = <<>> /\ f.ret = <<1>> /\ f.err = "nil"

\* the calls on the register that the call in frame f has made
RegisterOps(f) == f.M.tr

LengthPanic(f) ==
    f.panic \in {"acorn: invalid nonce length", "acorn: invalid iv length"}

(* C6: Length validation.  NewAEAD with a key that is not 16 bytes, and     *)
(* Seal or Open with a nonce that is not 16 bytes, panic: nothing is        *)
(* returned, and no operation (reset, update8, update32) has run on the     *)
(* call's register.                                                         *)
C6_LengthValidation ==
    /\ aead.state = "panic" => \A c \in Callers : calls[c].pc = "idle"
    /\ \A c \in Callers :
          LET f == calls[c]
          IN  (f.pc = "done" /\ Len(f.nonce) # NonceSize)
              => /\ LengthPanic(f) /\ f.ret = <<>> /\ f.err = ""
                 /\ RegisterOps(f) = <<>>

(* C7: Open checks the length of its input at entry: given a 16-byte nonce  *)
(* and an input shorter than a tag, it rejects the input with no call made  *)
(* on the register.                                                         *)
C7_ShortInputRejectedAtEntry ==
    \A c \in Callers :
        LET f == calls[c]
        IN  (Done(f, "Open") /\ Len(f.nonce) = NonceSize /\ Len(f.text) < TagSize)
            => (f.panic # "" \/ f.err = "acorn: decryption failed")
               /\ RegisterOps(f) = <<>>

\* x ^ y on bytes
XorByte(x, y) == ByteOfWord(Xor(WordOfByte(x), WordOfByte(y)))

(* C8: Wire format.  Seal returns len(dst) + len(p) + 16 bytes: dst         *)
(* unchanged, then the ciphertext, byte i being p[i] XOR keystream byte i,  *)
(* then the tag; Overhead() and NonceSize() are 16; Seal leaves p and the   *)
(* key unchanged.                                                           *)
C8_WireFormat ==
    /\ aeadOverhead = 16 /\ aeadNonceSize = 16
    /\ \A c \in Callers :
          LET f == calls[c]
              i == Len(f.dst.pre)
              n == Len(f.text)
          IN  (Done(f, "Seal") /\ f.panic = "")
              => /\ Len(f.ret) = i + n + 16
                 /\ SubSeq(f.ret, 1, i) = f.dst.pre
                 /\ Len(f.ks) = n
                 /\ \A j \in 1..n : f.ret[i + j] = XorByte(f.text[j], f.ks[j])
                 /\ SubSeq(f.ret, i + n + 1, i + n + 16) = f.tag
                 /\ f.mem = f.text
                 /\ aead.key = f.key0

(* What each call of SpecConc returns when it is the only call ever made on *)
(* a new object: the Seal calls, and the Open calls on what they returned.  *)
AloneSeals ==
    {Seal(NewAEAD(key), x.dst, x.nonce, x.text, x.ad).f : key \in Keys, x \in ConcSealArgs}

AloneOpens ==
    UNION {{Open([state |-> "ok", msg |-> "", key |-> g.key0],
                 o.dst, o.nonce, o.text, o.ad, o.src).f : o \in ConcOpenArgs(Msg(g))} :
             g \in {h \in AloneSeals : h.panic = ""}}
    \cup {Open(NewAEAD(key), o.dst, o.nonce, o.text, o.ad, o.src).f :
            key \in Keys, o \in ConcJunkArgs}

Alone == AloneSeals \cup AloneOpens

\* the same operation on the same key, nonce, input, associated data and dst
SameCall(f, g) ==
    /\ f.op = g.op /\ f.key0 = g.key0 /\ f.nonce = g.nonce
    /\ f.text = g.text /\ f.ad = g.ad /\ f.dst = g.dst

\* the same result, and the same calls made on the call's register
SameOutcome(f, g) ==
    /\ f.ret = g.ret /\ f.err = g.err /\ f.panic = g.panic
    /\ f.M = g.M /\ f.tag = g.tag

(* C9: Independence of calls.  However the parts of the callers' Seal and   *)
(* Open calls on one object interleave: a call starts on an all-zero        *)
(* register on which no call has been made; the stored key stays what it    *)
(* was when the call was entered; what the call returns, and the calls made *)
(* on its register, are those of the same call made alone on a new object;  *)
(* two Seal calls with identical inputs return identical bytes.             *)
C9_CallsIndependent ==
    /\ \A c \in Callers :
          LET f == calls[c]
          IN  /\ f.pc = "init" => f.M = NewState
              /\ f.pc # "idle" => aead.key = f.key0
              /\ f.pc = "done"
                 => /\ \E g \in Alone : SameCall(f, g)
                    /\ \A g \in Alone : SameCall(f, g) => SameOutcome(f, g)
    /\ \A c, d \in Callers :
          (/\ Done(calls[c], "Seal") /\ Done(calls[d], "Seal")
           /\ SameCall(calls[c], calls[d]))
          => calls[c].ret = calls[d].ret

(* two callers have sealed the same input, each while a part of the other's *)
(* call ran, and both have the same bytes                                   *)
C9_Witness ==
    /\ Done(calls["c1"], "Seal") /\ Done(calls["c2"], "Seal")
    /\ calls["c1"].mixed /\ calls["c2"].mixed
    /\ SameCall(calls["c1"], calls["c2"])
    /\ Len(calls["c1"].text) = MaxPlain
    /\ calls["c1"].panic = "" /\ calls["c1"].ret = calls["c2"].ret

(* C10: Update-path equivalence.  From every register state reached, for    *)
(* every message word and control masks, four update8 calls on their bytes, *)
(* low byte first, leave the same six segments as the one update32 call,    *)
(* and their four keystream bytes, low byte first, are the keystream word   *)
(* update32 returned.                                                       *)
C10_UpdatePathsAgree ==
    reg.op = "update32" => reg.alt = reg.s /\ reg.altks = reg.ks

(* an update32, the last of MaxCalls calls, that left no segment of the     *)
(* register zero and returned keystream that is not zero                    *)
C10_Witness ==
    /\ reg.op = "update32" /\ reg.n = MaxCalls
    /\ reg.ks # zero /\ reg.altks = reg.ks
    /\ \A seg \in DOMAIN ZeroState : reg.s[seg] # {} /\ reg.alt[seg] = reg.s[seg]

\* the width of each segment: from its boundary to the next
Width == [s230 |-> 293 - 230, s193 |-> 230 - 193, s154 |-> 193 - 154,
          s107 |-> 154 - 107, s61 |-> 107 - 61, s0 |-> 61 - 0]

(* C12: Segment-width invariant.  After any reset, update8 and update32     *)
(* calls every segment holds only bits below its width: s230 < 2^63,        *)
(* s193 < 2^37, s154 < 2^39, s107 < 2^47, s61 < 2^46, s0 < 2^61.            *)
C12_SegmentWidths ==
    /\ Width = [s230 |-> 63, s193 |-> 37, s154 |-> 39, s107 |-> 47, s61 |-> 46, s0 |-> 61]
    /\ \A seg \in DOMAIN Width : reg.s[seg] \subseteq 0..(Width[seg] - 1)

\* an update8 has put a 1 in the top bit of s230, and no segment is zero
C12_Witness ==
    /\ reg.op = "update8" /\ reg.n = MaxCalls
    /\ (Width.s230 - 1) \in reg.s.s230
    /\ \A seg \in DOMAIN Width : reg.s[seg] # {}

(* C13: Batched update equals bit-serial update.  One update8(m, ca, cb)    *)
(* leaves the state and returns the keystream byte of eight successive      *)
(* steps of one bit on bits 0..7 of m, ca, cb, each step doing the six      *)
(* feedbacks, ks, f, the shift and s292 = f ^ m in that order.              *)
C13_BatchedIsBitSerial ==
    reg.op = "update8" => reg.alt = reg.s /\ reg.altks = reg.ks

\* an update8 on a register with no zero segment that returned keystream
C13_Witness ==
    /\ reg.op = "update8" /\ reg.n = MaxCalls
    /\ reg.ks # zero /\ reg.altks = reg.ks /\ reg.alt = reg.s
    /\ \A seg \in DOMAIN ZeroState : reg.s[seg] # {}

(* C11: Encrypt/decrypt state agreement.  When crypt with mode 0 from a     *)
(* state on p writes c, crypt with mode all-ones from the same state on c   *)
(* writes p and leaves the same state, so finalize returns the same tag on  *)
(* both; and so for one unit alone: a word through update32 and a byte      *)
(* through update8 return the same keystream and leave the same state.      *)
C11_EncDecAgree ==
    /\ reg.op = "encdec"
       => /\ Len(reg.dst) = Len(reg.src)
          /\ reg.altdst = reg.src
          /\ reg.alt = reg.s
          /\ reg.alttag = reg.tag
    /\ reg.op \in {"encdec32", "encdec8"}
       => /\ reg.altdst = reg.src
          /\ reg.altks = reg.ks
          /\ reg.alt = reg.s

(* from what init left, the longest text of bytes all different encrypted   *)
(* to other bytes, decrypted, and tagged                                    *)
C11_Witness ==
    /\ reg.op = "encdec" /\ reg.src = Ramp(MaxPlain, 37) /\ MaxPlain > 4
    /\ reg.dst # reg.src /\ reg.altdst = reg.src
    /\ Len(reg.tag) = TagSize /\ reg.alttag = reg.tag
    /\ \A seg \in DOMAIN ZeroState : reg.s[seg] # {}

\* the eight calls of pad(cb)
PadPattern(cb) ==
    <<<<"update32", {0}, one, cb>>>>
    \o [i \in 1..3 |-> <<"update32", zero, one, cb>>]
    \o [i \in 1..4 |-> <<"update32", zero, zero, cb>>]

(* C16: Padding pattern.  pad(cb) makes exactly eight update32 calls: the   *)
(* first with message word 1, the other seven with 0; the first four with   *)
(* ca all ones, the last four with ca 0; all eight with the caller's cb.    *)
C16_PadPattern ==
    reg.op = "pad" => reg.tr = PadPattern(reg.mode)

\* a pad with a cb that is neither 0 nor all ones
C16_Witness ==
    /\ reg.op = "pad" /\ reg.mode = Mixed
    /\ Len(reg.tr) = 8 /\ reg.tr[1] = <<"update32", {0}, one, Mixed>>

\* the calls of crypt on src: a wide one for each whole word, then a narrow one a byte
CryptPattern(src, mode) ==
    [k \in 1..(Len(src) \div 4) |->
        <<"update32", LittleEndianUint32(src, 4 * (k - 1)), one, mode>>]
    \o [k \in 1..(Len(src) % 4) |->
        <<"update8", WordOfByte(src[4 * (Len(src) \div 4) + k]), one, mode>>]

(* C17: The message transform is path-independent.  crypt(dst, src, mode)   *)
(* makes floor(n/4) wide calls on the little-endian words of src, then      *)
(* n mod 4 narrow calls, then pad(0); it writes n bytes, byte i being       *)
(* src[i] XOR keystream byte i; and it leaves the state that src fed one    *)
(* byte at a time through update8(byte, all-ones, mode), then pad(0),       *)
(* leaves.                                                                  *)
C17_CryptPathIndependent ==
    reg.op = "crypt"
    => /\ reg.tr = CryptPattern(reg.src, reg.mode) \o PadPattern(zero)
       /\ Len(reg.dst) = Len(reg.src)
       /\ Len(reg.kss) = Len(reg.src)
       /\ \A i \in 1..Len(reg.src) : reg.dst[i] = XorByte(reg.src[i], reg.kss[i])
       /\ reg.alt = reg.s

\* a crypt in mode all-ones of a text of one word and one byte, all bytes different
C17_Witness ==
    /\ reg.op = "crypt" /\ reg.mode = one
    /\ reg.src = Ramp(MaxPlain, 37) /\ MaxPlain > 4 /\ MaxPlain % 4 # 0
    /\ reg.tr[1][1] = "update32" /\ reg.tr[2][1] = "update8"
    /\ reg.dst # reg.src /\ reg.alt = reg.s
    /\ \A seg \in DOMAIN ZeroState : reg.s[seg] # {}

\* the calls of init(k, iv): the reset, then 52 wide and 16 narrow updates
InitPattern(k, iv) ==
    <<<<"reset">>>>
    \o [i \in 1..4 |-> <<"update32", k[i], one, one>>]
    \o [i \in 1..16 |-> <<"update8", WordOfByte(iv[i]), one, one>>]
    \o <<<<"update32", Xor(k[1], {0}), one, one>>>>
    \o [j \in 1..47 |-> <<"update32", k[(j % 4) + 1], one, one>>]

\* how many entries of the trace tr are calls of op
Count(tr, op) == Cardinality({i \in DOMAIN tr : tr[i][1] = op})

(* C15: Initialization sequence.  init(key, nonce) with a 16-byte nonce     *)
(* resets the register and then makes, in order, 4 wide updates with        *)
(* key[0..3], 16 narrow updates with the nonce bytes, 1 wide update with    *)
(* key[0] XOR 1 and 47 wide updates, the j-th with key[j mod 4], all with   *)
(* ca = cb = all ones: 52 wide and 16 narrow; nothing of their keystream    *)
(* has gone into what the call returns.                                     *)
C15_InitSequence ==
    \A c \in Callers :
        LET f == calls[c]
        IN  /\ (f.pc = "process")
               => /\ f.M.tr = InitPattern(f.key0, f.nonce)
                  /\ Count(f.M.tr, "update32") = 52 /\ Count(f.M.tr, "update8") = 16
                  /\ f.buf = <<>> /\ f.ks = <<>> /\ f.tag = <<>> /\ f.ret = <<>>
            /\ (f.pc \in {"crypt", "finalize"} \/ (f.pc = "done" /\ f.panic = ""))
               => SubSeq(f.M.tr, 1, 69) = InitPattern(f.key0, f.nonce)

\* init has returned in a call with the second key and the second nonce
C15_Witness ==
    \E c \in Callers :
        LET f == calls[c]
        IN  /\ f.pc = "process" /\ f.nonce = Ramp(NonceSize, 3)
            /\ f.key0 = NewAEAD(Ramp(KeySize, 1)).key
            /\ Len(f.M.tr) = 69

\* a trace entry without its message word: the call, ca, cb
Masks(e) == <<e[1], e[3], e[4]>>

\* the entries of the trace tr from the one after position a, n of them
Part(tr, a, n) == SubSeq(tr, a + 1, a + n)

\* the message updates on n bytes in the mode: wide by whole words, then narrow
MessageShape(n, mode) ==
    [k \in 1..(n \div 4) |-> <<"update32", one, mode>>]
    \o [k \in 1..(n % 4) |-> <<"update8", one, mode>>]

\* the keystream bytes of the n update calls after the a-th, low byte first
KeystreamBytes(out, tr, a, n) ==
    IF n = 0 THEN <<>>
    ELSE LET bytes(k) == IF tr[a + 1 + k][1] = "update32"
                         THEN LittleEndianBytes(out[a + k])
                         ELSE <<ByteOfWord(out[a + k])>>
             RECURSIVE cat(_)
             cat(k) == IF k = 0 THEN <<>> ELSE cat(k - 1) \o bytes(k)
         IN  cat(n)

\* the length of the message a call transforms
MessageLen(f) == IF f.op = "Seal" THEN Len(f.text) ELSE Len(f.text) - TagSize

\* the calls of a Seal or Open up to the end of process
HeadPattern(f) ==
    InitPattern(f.key0, f.nonce)
    \o [i \in 1..Len(f.ad) |-> <<"update8", WordOfByte(f.ad[i]), one, one>>]
    \o PadPattern(one)

(* C14: Phase ordering.  The calls on the register of a Seal or Open that   *)
(* returns are, in order: reset, the init updates, one narrow update for    *)
(* each byte of associated data, one pad with cb all ones, the message      *)
(* updates, one pad with cb 0, 20 wide zero updates and 16 narrow zero      *)
(* updates, whose keystream bytes are the tag in order; both pads are there *)
(* when associated data and message are empty; the keystream that goes into *)
(* the output is that of the message updates, none of before.  A call that  *)
(* panics has made a beginning of this order.                               *)
C14_PhaseOrder ==
    \A c \in Callers :
        LET f  == calls[c]
            tr == f.M.tr
            n  == MessageLen(f)
            a  == 69 + Len(f.ad) + 8
            u  == (n \div 4) + (n % 4)
            z  == a + u + 8
        IN  /\ (f.pc = "done" /\ f.panic = "")
               => /\ Len(tr) = z + 20 + 16
                  /\ Part(tr, 0, a) = HeadPattern(f)
                  /\ [k \in 1..u |-> Masks(tr[a + k])]
                        = MessageShape(n, IF f.op = "Seal" THEN zero ELSE one)
                  /\ Part(tr, a + u, 8) = PadPattern(zero)
                  /\ Part(tr, z, 20) = [k \in 1..20 |-> <<"update32", zero, one, one>>]
                  /\ Part(tr, z + 20, 16) = [k \in 1..16 |-> <<"update8", zero, one, one>>]
                  /\ f.tag = KeystreamBytes(f.M.out, tr, z + 20 - 1, 16)
                  /\ f.ks = KeystreamBytes(f.M.out, tr, a - 1, u)
            /\ (f.pc = "done" /\ f.panic # "")
               => \/ tr = <<>>
                  \/ tr = <<<<"reset">>>>
                  \/ Len(f.nonce) = NonceSize /\ tr = HeadPattern(f)

\* a Seal with no associated data and no message has returned: both pads, then the tag
C14_Witness ==
    \E c \in Callers :
        LET f == calls[c]
        IN  /\ Done(f, "Seal") /\ f.panic = "" /\ f.text = <<>> /\ f.ad = <<>>
            /\ Part(f.M.tr, 69, 8) = PadPattern(one)
            /\ Part(f.M.tr, 77, 8) = PadPattern(zero)
            /\ Len(f.M.tr) = 69 + 8 + 8 + 20 + 16
            /\ Len(f.ret) = TagSize

\* x | y on 32-bit words
Or(x, y) == {i \in Bits32 : i \in x \/ i \in y}

(* C18: The combiners match their definitions.  maj(x, y, z) is             *)
(* (x&y) | (x&z) | (y&z) and ch(x, y, z) is (x&y) | (~x&z), in every bit.   *)
C18_Combiners ==
    LET x == reg.tr[1]
        y == reg.tr[2]
        z == reg.tr[3]
    IN  /\ reg.op = "maj" => reg.ks = Or(Or(And(x, y), And(x, z)), And(y, z))
        /\ reg.op = "ch" => reg.ks = Or(And(x, y), And(Not32(x), z))
        /\ reg.op \in {"maj", "ch"}
           => \A i \in Bits32 :
                 i \in reg.ks <=> IF reg.op = "maj"
                                  THEN Cardinality({w \in {1, 2, 3} : i \in reg.tr[w]}) >= 2
                                  ELSE IF i \in x THEN i \in y ELSE i \in z

\* maj on three words whose low bits run through all eight combinations
C18_Witness ==
    /\ reg.op = "maj"
    /\ reg.tr = <<{4, 5, 6, 7}, {2, 3, 6, 7}, {1, 3, 5, 7}>>
    /\ reg.ks = {3, 5, 6, 7}

=============================================================================
